---------------------------- MODULE Spec2Model ----------------------------
(***************************************************************************)
(* clocktui: the animated time display (src/src/app.rs) and the event      *)
(* scheduler with its two workers (src/src/event.rs), driven by the main   *)
(* loop (src/src/main.rs).                                                 *)
(*                                                                         *)
(* Text is a sequence of one-character strings.  Durations are whole       *)
(* milliseconds (Duration::as_millis).                                     *)
(***************************************************************************)
EXTENDS Integers, Sequences, FiniteSets, TLC

VARIABLES
    animated_time,   \* App.animated_time : [format_tokens, timing]
    running,         \* App.running
    now,             \* index of the wall-clock instant Local::now() returns
    queue,           \* the mpsc channel: events sent and not yet received
    is_animating,    \* the Mutex<bool> of EventHandler.is_animating
    render_pc,       \* position of the render-tick worker
    logic_pc,        \* position of the input/logic worker
    call,            \* history: the last operation applied, its inputs and result
    late_sends,      \* history: RenderTicks sent since is_animating last became false
    last_tick_elapsed, \* input/logic worker: last_tick.elapsed(), in ms
    timeout,         \* input/logic worker: the timeout of the poll under way
    poll_waited      \* input/logic worker: time spent in the poll under way

\* the timing of the input/logic worker
pacer == <<last_tick_elapsed, timeout, poll_waited>>

vars == <<animated_time, running, now, queue, is_animating, render_pc, logic_pc,
          call, late_sends, pacer>>

---------------------------------------------------------------------------
(* Bounds of the model *)

\* wall-clock instants are Clock(0) .. Clock(MaxNow)
MaxNow == 1
\* a render tick carries 0 .. MaxElapsedUnits units of ElapsedUnit milliseconds
MaxElapsedUnits == 1
\* events of one kind (input, LogicTick, RenderTick) the channel holds at most
\* (the channel of the code is unbounded; a send never waits for events of
\* another kind to be received)
MaxQueue == 1
\* a RenderTick of the full system carries 1 .. MaxRenderUnits units
MaxRenderUnits == 1
\* late_sends is counted up to this cap
MaxLate == 2
\* time passes in steps of 1 .. MaxPaceUnits units of PaceUnit milliseconds
MaxPaceUnits == 2
\* last_tick.elapsed() is followed up to MaxIntervals tick rates
MaxIntervals == 3

(* Program constants *)

\* AnimatedTime::new: timing: 250
DefaultTiming == 250
\* main: EventHandler::new(200, 10)
TickRate == 200
RenderTickRate == 10

ElapsedUnit == DefaultTiming
PaceUnit == TickRate \div 2
PaceSteps == { k * PaceUnit : k \in 1..MaxPaceUnits }
Elapsed == { k * ElapsedUnit : k \in 0..MaxElapsedUnits }
\* transition timings App::new is called with
TimingInputs == { 0, DefaultTiming }

Min(a, b) == IF a < b THEN a ELSE b
Max(a, b) == IF a > b THEN a ELSE b

---------------------------------------------------------------------------
(* chrono: instants and strftime rendering *)

DateTime(y, mo, d, h, mi, s) ==
    [year |-> y, mon |-> mo, day |-> d, hour |-> h, min |-> mi, sec |-> s]

\* The instants Local::now() may return: January 09:00:00, September 12:00:01,
\* May 12:00:02, January 15:00:03, ...
Clock(i) ==
    DateTime(2026, ((8 * i) % 12) + 1, 6, (9 + 3 * ((i + 1) \div 2)) % 24, 0, i % 60)

\* The offset from UTC, in hours, of the Local time zone at an instant: a zone
\* one hour ahead of UTC that keeps daylight time from April to October
LocalOffset(dt) == IF dt.mon \in 4..10 THEN 2 ELSE 1

Digits == <<"0", "1", "2", "3", "4", "5", "6", "7", "8", "9">>
Digit(n) == Digits[n + 1]

Pad2(n) == <<Digit((n \div 10) % 10), Digit(n % 10)>>
NoPad(n) == IF n < 10 THEN <<Digit(n)>> ELSE Pad2(n)

MonthNames == <<
    <<"J","a","n","u","a","r","y">>,
    <<"F","e","b","r","u","a","r","y">>,
    <<"M","a","r","c","h">>,
    <<"A","p","r","i","l">>,
    <<"M","a","y">>,
    <<"J","u","n","e">>,
    <<"J","u","l","y">>,
    <<"A","u","g","u","s","t">>,
    <<"S","e","p","t","e","m","b","e","r">>,
    <<"O","c","t","o","b","e","r">>,
    <<"N","o","v","e","m","b","e","r">>,
    <<"D","e","c","e","m","b","e","r">> >>

\* the padding modifiers of a strftime directive
PadModifiers == {"-", "_", "0"}

\* One strftime item rendered at an instant: a directive (%H %M %S %X %B %p
\* %z, %-H) or a literal character.
FormatItem(dt, item) ==
    CASE item = <<"%", "H">>      -> Pad2(dt.hour)
      [] item = <<"%", "-", "H">> -> NoPad(dt.hour)
      [] item = <<"%", "M">>      -> Pad2(dt.min)
      [] item = <<"%", "S">>      -> Pad2(dt.sec)
      [] item = <<"%", "X">>      -> Pad2(dt.hour) \o <<":">> \o Pad2(dt.min)
                                       \o <<":">> \o Pad2(dt.sec)
      [] item = <<"%", "B">>      -> MonthNames[dt.mon]
      [] item = <<"%", "p">>      -> IF dt.hour < 12 THEN <<"A", "M">> ELSE <<"P", "M">>
      [] item = <<"%", "z">>      -> <<"+">> \o Pad2(LocalOffset(dt)) \o <<"0", "0">>
      [] OTHER                    -> item

\* DateTime::format(fmt).to_string() on a whole format specification: chrono
\* parses the items left to right and renders each.
RECURSIVE FormatWhole(_, _)
FormatWhole(dt, fmt) ==
    IF fmt = <<>> THEN <<>>
    ELSE LET n == IF fmt[1] # "%" THEN 1
                  ELSE IF Len(fmt) >= 2 /\ fmt[2] \in PadModifiers THEN 3
                  ELSE 2
             k == Min(n, Len(fmt))
         IN  FormatItem(dt, SubSeq(fmt, 1, k)) \o FormatWhole(dt, SubSeq(fmt, k + 1, Len(fmt)))

\* the format specifications of the model
Formats == {
    <<"%", "X">>,
    <<"%", "B">>,
    <<"%", "z">>,
    <<"%", "-", "H", "%", "p">> }


---------------------------------------------------------------------------
(* app.rs: TokenBlock, Token, AnimatedTime *)

\* set_format: the two representative instants
max_dt == DateTime(3000, 11, 11, 12, 11, 11)
min_dt == DateTime(2222, 2, 2, 1, 0, 0)

\* TokenBlock { is_constant, transition_progress: 0, transition_timing, size,
\*              ..TokenBlock::default() }
TokenBlock(is_constant, transition_timing, size) ==
    [is_constant         |-> is_constant,
     transition_progress |-> 0,
     transition_timing   |-> transition_timing,
     size                |-> size,
     curr_token          |-> <<>>,
     new_token           |-> <<>>]

\* a variant that sizes the single block to the shorter rendering
TokenBlocks_shorter(token, timing, mindt, maxdt) ==
    LET maxs == FormatItem(maxdt, token)
        mins == FormatItem(mindt, token)
    IN  IF Len(mins) # Len(maxs)
        THEN << TokenBlock(maxs = mins, timing, Min(Len(mins), Len(maxs))) >>
        ELSE [i \in 1..Len(mins) |-> TokenBlock(mins[i] = maxs[i], timing, 1)]

\* set_format, the blocks of one token from its renderings at the two instants
TokenBlocks(token, timing, mindt, maxdt) ==
    LET maxs == FormatItem(maxdt, token)
        mins == FormatItem(mindt, token)
    IN  IF Len(mins) # Len(maxs)
        THEN << TokenBlock(maxs = mins, timing, Max(Len(mins), Len(maxs))) >>
        ELSE [i \in 1..Len(mins) |-> TokenBlock(mins[i] = maxs[i], timing, 1)]

\* set_format, the scan of the format specification: token is the fragment
\* accumulated so far, tokens the tokens pushed so far
RECURSIVE ScanFormat(_, _, _, _, _, _, _)
ScanFormat(fmt, i, token, tokens, timing, mindt, maxdt) ==
    IF i > Len(fmt) THEN tokens
    ELSE LET ch == fmt[i]
             t  == Append(token, ch)
         IN  IF t[1] # "%" \/ Len(t) > 2 \/ (Len(t) = 2 /\ ch \notin PadModifiers)
             THEN ScanFormat(fmt, i + 1, <<>>,
                             Append(tokens, [format_string |-> t,
                                             blocks |-> TokenBlocks(t, timing, mindt, maxdt)]),
                             timing, mindt, maxdt)
             ELSE ScanFormat(fmt, i + 1, t, tokens, timing, mindt, maxdt)

\* a variant of the split that extends the target instead of replacing it
RECURSIVE TakeBlocks_extend(_, _)
TakeBlocks_extend(blocks, time_chars) ==
    IF blocks = <<>> THEN <<>>
    ELSE LET b == Head(blocks)
             k == Min(b.size, Len(time_chars))
         IN  << [b EXCEPT !.new_token = b.new_token \o SubSeq(time_chars, 1, k)] >>
             \o TakeBlocks_extend(Tail(blocks), SubSeq(time_chars, k + 1, Len(time_chars)))

\* tick_logic, one token: each block takes its size from the characters left
RECURSIVE TakeBlocks(_, _)
TakeBlocks(blocks, time_chars) ==
    IF blocks = <<>> THEN <<>>
    ELSE LET b == Head(blocks)
             k == Min(b.size, Len(time_chars))
         IN  << [b EXCEPT !.new_token = SubSeq(time_chars, 1, k)] >>
             \o TakeBlocks(Tail(blocks), SubSeq(time_chars, k + 1, Len(time_chars)))

\* a variant of the sample that also restarts the transition of every block
tick_logic_restart(self, n) ==
    [self EXCEPT !.format_tokens =
        [t \in 1..Len(self.format_tokens) |->
            [self.format_tokens[t] EXCEPT !.blocks =
                TakeBlocks([b \in 1..Len(self.format_tokens[t].blocks) |->
                               [self.format_tokens[t].blocks[b] EXCEPT
                                   !.transition_progress = 0]],
                           FormatItem(Clock(n), self.format_tokens[t].format_string))]]]

\* AnimatedTime::tick_logic with Local::now() = Clock(n)
tick_logic(self, n) ==
    [self EXCEPT !.format_tokens =
        [t \in 1..Len(self.format_tokens) |->
            [self.format_tokens[t] EXCEPT !.blocks =
                TakeBlocks(self.format_tokens[t].blocks,
                           FormatItem(Clock(n), self.format_tokens[t].format_string))]]]

\* a variant of set_format's last loop that copies nothing
CommitAll_skipped(self) == self

\* set_format, the loop after the sample: curr_token = new_token.clone()
CommitAll(self) ==
    [self EXCEPT !.format_tokens =
        [t \in 1..Len(self.format_tokens) |->
            [self.format_tokens[t] EXCEPT !.blocks =
                [b \in 1..Len(self.format_tokens[t].blocks) |->
                    [self.format_tokens[t].blocks[b] EXCEPT
                        !.curr_token = self.format_tokens[t].blocks[b].new_token]]]]]

\* self.format_tokens.clear()
VecClear(v) == SubSeq(v, 1, 0)

\* the commented-out variant of set_format: both instants are Local::now()
set_format_now(self, format_string, n) ==
    CommitAll(tick_logic(
        [self EXCEPT !.format_tokens =
            ScanFormat(format_string, 1, <<>>, VecClear(self.format_tokens),
                       self.timing, Clock(n), Clock(n))], n))

\* AnimatedTime::set_format with Local::now() = Clock(n)
set_format(self, format_string, n) ==
    CommitAll(tick_logic(
        [self EXCEPT !.format_tokens =
            ScanFormat(format_string, 1, <<>>, VecClear(self.format_tokens),
                       self.timing, min_dt, max_dt)], n))

\* AnimatedTime::new
AnimatedTime_new(n) ==
    set_format([format_tokens |-> <<>>, timing |-> DefaultTiming], <<"%", "X">>, n)

\* AnimatedTime::set_timing: every block is given self.timing
set_timing(self, timing) ==
    [self EXCEPT !.format_tokens =
        [t \in 1..Len(self.format_tokens) |->
            [self.format_tokens[t] EXCEPT !.blocks =
                [b \in 1..Len(self.format_tokens[t].blocks) |->
                    [self.format_tokens[t].blocks[b] EXCEPT
                        !.transition_timing = self.timing]]]]]

\* a commit taken as soon as the progress reaches the timing
render_block_ge(block, duration) ==
    IF block.is_constant THEN block
    ELSE IF block.transition_progress >= block.transition_timing
    THEN [block EXCEPT !.transition_progress = 0, !.curr_token = block.new_token]
    ELSE IF block.new_token # block.curr_token
    THEN [block EXCEPT !.transition_progress = block.transition_progress + duration]
    ELSE block

\* a variant of the loop body that does not skip constant blocks
render_block_unskipped(block, duration) ==
    IF block.transition_progress > block.transition_timing
    THEN [block EXCEPT !.transition_progress = 0, !.curr_token = block.new_token]
    ELSE IF block.new_token # block.curr_token
    THEN [block EXCEPT !.transition_progress = block.transition_progress + duration]
    ELSE block

\* tick_render, the body of the loop for one block
render_block(block, duration) ==
    IF block.is_constant THEN block
    ELSE IF block.transition_progress > block.transition_timing
    THEN [block EXCEPT !.transition_progress = 0, !.curr_token = block.new_token]
    ELSE IF block.new_token # block.curr_token
    THEN [block EXCEPT !.transition_progress = block.transition_progress + duration]
    ELSE block

\* a variant in which a block that commits also counts as transitioning
block_transitioning_commit(block) ==
    /\ ~block.is_constant
    /\ \/ block.transition_progress > block.transition_timing
       \/ block.new_token # block.curr_token

\* tick_render, whether the block sets is_transitioning
block_transitioning(block) ==
    /\ ~block.is_constant
    /\ ~(block.transition_progress > block.transition_timing)
    /\ block.new_token # block.curr_token

\* AnimatedTime::tick_render: the state after the call and the value returned
tick_render(self, duration) ==
    [self |-> [self EXCEPT !.format_tokens =
                  [t \in 1..Len(self.format_tokens) |->
                      [self.format_tokens[t] EXCEPT !.blocks =
                          [b \in 1..Len(self.format_tokens[t].blocks) |->
                              render_block(self.format_tokens[t].blocks[b], duration)]]]],
     ret  |-> \E t \in 1..Len(self.format_tokens) :
                  \E b \in 1..Len(self.format_tokens[t].blocks) :
                      block_transitioning(self.format_tokens[t].blocks[b])]

\* App::default and App::new(transition_timing): the animated_time field
App_default(n) == AnimatedTime_new(n)
App_new(transition_timing, n) == set_timing(AnimatedTime_new(n), transition_timing)

\* the (token, block) positions of an AnimatedTime, and the block at one
BlockIds(self) ==
    UNION { { <<t, b>> : b \in 1..Len(self.format_tokens[t].blocks) } :
            t \in 1..Len(self.format_tokens) }
BlockAt(self, p) == self.format_tokens[p[1]].blocks[p[2]]

---------------------------------------------------------------------------
(* event.rs: Event, EventHandler and its two workers *)

Event(type, elapsed) == [type |-> type, elapsed |-> elapsed]

\* what event::read() returns that the input/logic worker forwards: a Key
\* (told apart by whether handle_key_events takes it as a quit key), or a
\* Mouse or Resize event, which the main loop handles alike
InputEvents == { Event("KeyQuit", 0), Event("Key", 0), Event("MouseOrResize", 0) }

\* the events of the channel that are RenderTicks / LogicTicks / input events
Queued(types) == Cardinality({ i \in 1..Len(queue) : queue[i].type \in types })
RenderQueued == Queued({"RenderTick"})
LogicQueued == Queued({"LogicTick"})
InputQueued == Queued({"KeyQuit", "Key", "MouseOrResize"})

\* last_tick.elapsed() once it has reached render_tick_rate
RenderElapsed == { d \in { k * ElapsedUnit : k \in 1..MaxRenderUnits } : d >= RenderTickRate }

\* Condvar::notify_one: a worker parked in wait is woken, otherwise the
\* notification is lost
notify_one(pc) == IF pc = "parked" THEN "woken" ELSE pc

\* a variant that notifies on every call with new_state = true
trigger_animation_always(transitioning, pc, new_state) ==
    [is_animating |-> new_state,
     render_pc    |-> IF new_state THEN notify_one(pc) ELSE pc,
     notified     |-> new_state]

\* EventHandler::trigger_animation, run under the mutex: the flag and the
\* worker's position after the call, and whether notify_one was called
trigger_animation(transitioning, pc, new_state) ==
    [is_animating |-> new_state,
     render_pc    |-> IF ~transitioning /\ new_state THEN notify_one(pc) ELSE pc,
     notified     |-> ~transitioning /\ new_state]

\* the record of a trigger_animation call: its argument, the flag before it,
\* whether it called notify_one, the instant of the last sample, and whether
\* the handler that made the call committed a block
TriggerCall(new_state, r, at) ==
    [op |-> "trigger_animation", arg |-> new_state, pre |-> is_animating,
     notified |-> r.notified, at |-> at,
     committed |-> (\E t \in 1..Len(animated_time.format_tokens) :
                       \E b \in 1..Len(animated_time.format_tokens[t].blocks) :
                           animated_time.format_tokens[t].blocks[b].curr_token
                               # animated_time'.format_tokens[t].blocks[b].curr_token)]

\* App::tick_logic and App::tick_render end in trigger_animation(new_state)
Trigger(new_state, at) ==
    LET r == trigger_animation(is_animating, render_pc, new_state)
    IN  /\ is_animating' = r.is_animating
        /\ render_pc' = r.render_pc
        /\ call' = TriggerCall(new_state, r, at)
        /\ late_sends' = IF r.is_animating THEN 0 ELSE late_sends

---------------------------------------------------------------------------
(* The state after main has built App::default() and EventHandler::new *)

Init ==
    /\ now \in 0..MaxNow
    /\ animated_time = App_default(now)
    /\ running = TRUE
    /\ queue = <<>>
    /\ is_animating = FALSE
    /\ render_pc = "start"
    /\ logic_pc = "poll"
    /\ call = [op |-> "App::default", at |-> now, configured |-> DefaultTiming]
    /\ late_sends = 0
    /\ last_tick_elapsed = 0
    /\ timeout = 0
    /\ poll_waited = 0

\* time passes: Local::now() moves on to a later instant
ClockChange ==
    /\ running
    /\ now' \in (now + 1)..MaxNow
    /\ UNCHANGED <<animated_time, running, queue, is_animating, render_pc, logic_pc,
                   call, late_sends>>
    /\ UNCHANGED pacer

(* The input/logic worker, event.rs 49-71 *)

\* event::poll(timeout) and, when an event is there, its send
LogicPoll ==
    /\ running /\ logic_pc = "poll"
    /\ \/ UNCHANGED queue
       \/ /\ InputQueued < MaxQueue
          /\ \E e \in InputEvents : queue' = Append(queue, e)
    /\ logic_pc' = "tick"
    /\ UNCHANGED <<animated_time, running, now, is_animating, render_pc, call, late_sends>>
    /\ UNCHANGED pacer

\* if last_tick.elapsed() >= tick_rate: the LogicTick is sent (App::tick_logic
\* does not read its duration, which is kept at tick_rate here)
LogicTickSend ==
    /\ running /\ logic_pc = "tick"
    /\ LogicQueued < MaxQueue
    /\ queue' = Append(queue, Event("LogicTick", TickRate))
    /\ logic_pc' = "poll"
    /\ UNCHANGED <<animated_time, running, now, is_animating, render_pc, call, late_sends>>
    /\ UNCHANGED pacer

\* last_tick.elapsed() < tick_rate
LogicTickSkip ==
    /\ running /\ logic_pc = "tick"
    /\ logic_pc' = "poll"
    /\ UNCHANGED <<animated_time, running, now, queue, is_animating, render_pc, call,
                   late_sends>>
    /\ UNCHANGED pacer

(* The render-tick worker, event.rs 78-90 *)

\* cvar.wait(is_animating.lock().unwrap()): the lock is taken, and released
\* as the worker parks
RenderWait ==
    /\ running /\ render_pc = "start"
    /\ render_pc' = "parked"
    /\ UNCHANGED <<animated_time, running, now, queue, is_animating, logic_pc, call,
                   late_sends>>
    /\ UNCHANGED pacer

\* Condvar::wait may return without a notification
RenderSpuriousWake ==
    /\ running /\ render_pc = "parked"
    /\ render_pc' = "woken"
    /\ UNCHANGED <<animated_time, running, now, queue, is_animating, logic_pc, call,
                   late_sends>>
    /\ UNCHANGED pacer

\* wait returns with the lock, the guard is dropped; last_tick = Instant::now()
RenderResume ==
    /\ running /\ render_pc = "woken"
    /\ render_pc' = "check"
    /\ UNCHANGED <<animated_time, running, now, queue, is_animating, logic_pc, call,
                   late_sends>>
    /\ UNCHANGED pacer

\* a loop that enters its body whatever the flag reads
RenderCheck_ungated ==
    /\ running /\ render_pc = "check"
    /\ render_pc' = "body"
    /\ UNCHANGED <<animated_time, running, now, queue, is_animating, logic_pc, call,
                   late_sends>>
    /\ UNCHANGED pacer

\* while *is_animating.lock().unwrap(): the flag is read under the lock
RenderCheck ==
    /\ running /\ render_pc = "check"
    /\ render_pc' = IF is_animating THEN "body" ELSE "start"
    /\ UNCHANGED <<animated_time, running, now, queue, is_animating, logic_pc, call,
                   late_sends>>
    /\ UNCHANGED pacer

\* if last_tick.elapsed() >= render_tick_rate: the RenderTick is sent
RenderSend ==
    /\ running /\ render_pc = "body"
    /\ RenderQueued < MaxQueue
    /\ \E d \in RenderElapsed : queue' = Append(queue, Event("RenderTick", d))
    /\ late_sends' = IF is_animating THEN late_sends ELSE Min(late_sends + 1, MaxLate)
    /\ render_pc' = "check"
    /\ UNCHANGED <<animated_time, running, now, is_animating, logic_pc, call>>
    /\ UNCHANGED pacer

\* last_tick.elapsed() < render_tick_rate
RenderSkip ==
    /\ running /\ render_pc = "body"
    /\ render_pc' = "check"
    /\ UNCHANGED <<animated_time, running, now, queue, is_animating, logic_pc, call,
                   late_sends>>
    /\ UNCHANGED pacer

(* The main loop, main.rs 21-32: tui.events.next() and the match on it *)

\* Event::LogicTick => App::tick_logic
MainLogicTick ==
    /\ running /\ queue # <<>> /\ Head(queue).type = "LogicTick"
    /\ queue' = Tail(queue)
    /\ animated_time' = tick_logic(animated_time, now)
    /\ Trigger(TRUE, now)
    /\ UNCHANGED <<running, now, logic_pc>>
    /\ UNCHANGED pacer

\* a variant of the RenderTick arm that reports no animation whatever
\* tick_render returns
MainRenderTick_cleared ==
    /\ running /\ queue # <<>> /\ Head(queue).type = "RenderTick"
    /\ queue' = Tail(queue)
    /\ LET r == tick_render(animated_time, Head(queue).elapsed)
       IN  /\ animated_time' = r.self
           /\ Trigger(FALSE, call.at)
    /\ UNCHANGED <<running, now, logic_pc>>
    /\ UNCHANGED pacer

\* Event::RenderTick => App::tick_render
MainRenderTick ==
    /\ running /\ queue # <<>> /\ Head(queue).type = "RenderTick"
    /\ queue' = Tail(queue)
    /\ LET r == tick_render(animated_time, Head(queue).elapsed)
       IN  /\ animated_time' = r.self
           /\ Trigger(r.ret, call.at)
    /\ UNCHANGED <<running, now, logic_pc>>
    /\ UNCHANGED pacer

\* Event::Key => handle_key_events: a quit key clears app.running
MainKey ==
    /\ running /\ queue # <<>> /\ Head(queue).type \in {"Key", "KeyQuit"}
    /\ queue' = Tail(queue)
    /\ running' = (Head(queue).type # "KeyQuit")
    /\ UNCHANGED <<animated_time, now, is_animating, render_pc, logic_pc, call, late_sends>>
    /\ UNCHANGED pacer

\* Event::Mouse(_) => {}, Event::Resize(_, _) => {}
MainOther ==
    /\ running /\ queue # <<>> /\ Head(queue).type = "MouseOrResize"
    /\ queue' = Tail(queue)
    /\ UNCHANGED <<animated_time, running, now, is_animating, render_pc, logic_pc, call,
                   late_sends>>
    /\ UNCHANGED pacer

LogicWorker == LogicPoll \/ LogicTickSend \/ LogicTickSkip
RenderWorker ==
    RenderWait \/ RenderSpuriousWake \/ RenderResume \/ RenderCheck \/ RenderSend \/ RenderSkip
MainLoop == MainLogicTick \/ MainRenderTick \/ MainKey \/ MainOther

Next == ClockChange \/ LogicWorker \/ RenderWorker \/ MainLoop

Spec == Init /\ [][Next]_vars


---------------------------------------------------------------------------
(* The animated time on its own: the operations of app.rs applied in any    *)
(* order, the wall clock moving freely between them.  call keeps the state  *)
(* before the operation (pre), the instant of the last sample (at) and the  *)
(* transition timing the application was constructed with (configured).     *)

\* the blocks a tick_render call on self is the first to observe differing:
\* non-constant, target different from the current value, no progress yet
FirstObserved(self) ==
    { p \in BlockIds(self) :
        /\ ~BlockAt(self, p).is_constant
        /\ BlockAt(self, p).new_token # BlockAt(self, p).curr_token
        /\ BlockAt(self, p).transition_progress = 0 }

AnimFrame ==
    UNCHANGED <<running, queue, is_animating, render_pc, logic_pc, late_sends, pacer>>

AnimClock ==
    /\ now' \in (0..MaxNow) \ {now}
    /\ UNCHANGED <<animated_time, call>>
    /\ AnimFrame

\* App::new(transition_timing)
AnimAppNew(transition_timing) ==
    /\ animated_time' = App_new(transition_timing, now)
    /\ call' = [op |-> "App::new", arg |-> transition_timing, pre |-> animated_time,
                at |-> now, configured |-> transition_timing]
    /\ UNCHANGED now
    /\ AnimFrame

\* AnimatedTime::set_format(format_string)
AnimSetFormat(format_string) ==
    /\ animated_time' = set_format(animated_time, format_string, now)
    /\ call' = [op |-> "set_format", arg |-> format_string, pre |-> animated_time,
                at |-> now, configured |-> call.configured]
    /\ UNCHANGED now
    /\ AnimFrame

\* AnimatedTime::tick_logic()
AnimTickLogic ==
    /\ animated_time' = tick_logic(animated_time, now)
    /\ call' = [op |-> "tick_logic", pre |-> animated_time, at |-> now,
                repeat |-> (call.op = "tick_logic" /\ call.at = now),
                configured |-> call.configured]
    /\ UNCHANGED now
    /\ AnimFrame

\* AnimatedTime::tick_render(duration)
AnimTickRender(duration) ==
    /\ LET r == tick_render(animated_time, duration)
       IN  /\ animated_time' = r.self
           /\ call' = [op |-> "tick_render", arg |-> duration, ret |-> r.ret,
                       pre |-> animated_time, at |-> call.at,
                       configured |-> call.configured,
                       first |-> FirstObserved(animated_time),
                       prev_first |-> IF call.op = "tick_render" THEN call.first ELSE {}]
    /\ UNCHANGED now
    /\ AnimFrame

NextAnim ==
    \/ AnimClock
    \/ \E t \in TimingInputs : AnimAppNew(t)
    \/ \E f \in Formats : AnimSetFormat(f)
    \/ AnimTickLogic
    \/ \E d \in Elapsed : AnimTickRender(d)

SpecAnim == Init /\ [][NextAnim]_vars


---------------------------------------------------------------------------
(* The full system under fair scheduling.  Every thread that can take a     *)
(* step eventually takes one; a worker spinning on last_tick.elapsed()      *)
(* eventually sees its rate elapsed, so a send that is enabled again and    *)
(* again is eventually taken.  A spurious wake-up is never owed.            *)

RenderProgress == RenderWait \/ RenderResume \/ RenderCheck \/ RenderSend \/ RenderSkip

FairSpec ==
    /\ Spec
    /\ WF_vars(MainLoop)
    /\ WF_vars(LogicWorker)
    /\ SF_vars(LogicTickSend)
    /\ WF_vars(RenderProgress)
    /\ SF_vars(RenderSend)

---------------------------------------------------------------------------
(* The input/logic worker with its clock, event.rs 46-71: the loop computes  *)
(* the poll timeout from last_tick.elapsed(), polls, forwards an input event *)
(* and sends a LogicTick once the tick rate has elapsed.  Time passes        *)
(* between any two steps; the main loop receives at its own pace.            *)

\* tick_rate.checked_sub(last_tick.elapsed()).unwrap_or(tick_rate)
poll_timeout(tick_rate, elapsed) ==
    IF tick_rate >= elapsed THEN tick_rate - elapsed ELSE tick_rate

\* time passes; a poll under way does not outlast its timeout
PaceAdvance(d) ==
    /\ last_tick_elapsed + d <= MaxIntervals * TickRate
    /\ logic_pc = "polling" => poll_waited + d <= timeout
    /\ last_tick_elapsed' = last_tick_elapsed + d
    /\ poll_waited' = IF logic_pc = "polling" THEN poll_waited + d ELSE poll_waited
    /\ UNCHANGED <<animated_time, running, now, queue, is_animating, render_pc, logic_pc,
                   call, late_sends, timeout>>

\* let timeout = ...; event::poll(timeout) is entered
PaceTimeout ==
    /\ logic_pc = "poll"
    /\ timeout' = poll_timeout(TickRate, last_tick_elapsed)
    /\ poll_waited' = 0
    /\ logic_pc' = "polling"
    /\ UNCHANGED <<animated_time, running, now, queue, is_animating, render_pc, call,
                   late_sends, last_tick_elapsed>>

\* poll returns true: event::read() and the send of a Key, Mouse or Resize
PacePollEvent(e) ==
    /\ logic_pc = "polling"
    /\ InputQueued < MaxQueue
    /\ queue' = Append(queue, e)
    /\ logic_pc' = "tick"
    /\ UNCHANGED <<animated_time, running, now, is_animating, render_pc, call, late_sends,
                   pacer>>

\* poll returns true with an event of another kind: _ => Ok(())
PacePollOther ==
    /\ logic_pc = "polling"
    /\ logic_pc' = "tick"
    /\ UNCHANGED <<animated_time, running, now, queue, is_animating, render_pc, call,
                   late_sends, pacer>>

\* poll returns false: the timeout has run out
PacePollTimeout ==
    /\ logic_pc = "polling" /\ poll_waited = timeout
    /\ logic_pc' = "tick"
    /\ call' = [op |-> "poll_timeout", at |-> call.at, elapsed |-> last_tick_elapsed]
    /\ UNCHANGED <<animated_time, running, now, queue, is_animating, render_pc,
                   late_sends, pacer>>

\* last_tick.elapsed() >= tick_rate: the LogicTick is sent, last_tick reset
PaceTickSend ==
    /\ logic_pc = "tick" /\ last_tick_elapsed >= TickRate
    /\ LogicQueued < MaxQueue
    /\ queue' = Append(queue, Event("LogicTick", last_tick_elapsed))
    /\ last_tick_elapsed' = 0
    /\ logic_pc' = "poll"
    /\ UNCHANGED <<animated_time, running, now, is_animating, render_pc, call, late_sends,
                   timeout, poll_waited>>

\* last_tick.elapsed() < tick_rate
PaceTickSkip ==
    /\ logic_pc = "tick" /\ last_tick_elapsed < TickRate
    /\ logic_pc' = "poll"
    /\ UNCHANGED <<animated_time, running, now, queue, is_animating, render_pc, call,
                   late_sends, pacer>>

\* the main loop takes an event off the channel
PaceReceive ==
    /\ queue # <<>>
    /\ queue' = Tail(queue)
    /\ UNCHANGED <<animated_time, running, now, is_animating, render_pc, logic_pc, call,
                   late_sends, pacer>>

NextPacing ==
    \/ \E d \in PaceSteps : PaceAdvance(d)
    \/ PaceTimeout
    \/ \E e \in InputEvents : PacePollEvent(e)
    \/ PacePollOther
    \/ PacePollTimeout
    \/ PaceTickSend
    \/ PaceTickSkip
    \/ PaceReceive

SpecPacing == Init /\ [][NextPacing]_vars

---------------------------------------------------------------------------
(* Properties *)

\* the blocks of the default format "%X"
DefaultBlockIds == BlockIds(App_default(0))

\* the block at p has a pending change / has committed
Pending(p) ==
    /\ ~BlockAt(animated_time, p).is_constant
    /\ BlockAt(animated_time, p).new_token # BlockAt(animated_time, p).curr_token
Committed(p) ==
    /\ BlockAt(animated_time, p).new_token = BlockAt(animated_time, p).curr_token
    /\ BlockAt(animated_time, p).transition_progress = 0

\* some block has a pending change
AnyPending == \E p \in BlockIds(animated_time) : Pending(p)

\* every block shows its target
Settled ==
    \A p \in BlockIds(animated_time) :
        BlockAt(animated_time, p).curr_token = BlockAt(animated_time, p).new_token

\* C1: no missed wakeup -- the render worker is never parked in the wait
\* while the activity flag is true.
C1_NoMissedWakeup == ~(render_pc = "parked" /\ is_animating)

\* C2: eventual convergence -- under fair scheduling of the three threads, a
\* non-constant block whose target differs from its current value eventually
\* commits once its target stays fixed.  The clock of the model stops at
\* Clock(MaxNow) and no value it renders comes back, so every target is
\* eventually fixed and a block is no longer pending only by committing: the
\* claim requires that a display with a pending block reaches one with none
\* (unless the application quits).
C2_EventualConvergence ==
    (running /\ AnyPending) ~> (~running \/ ~AnyPending)

\* C3: idle gating -- in a step that starts with the display settled and the
\* flag false and changes no block, the flag stays false, notify_one is not
\* called and no RenderTick is enqueued.
C3_IdleGating ==
    [][ (Settled /\ ~is_animating /\ animated_time' = animated_time)
        => /\ ~is_animating'
           /\ (call' # call => ~(call'.op = "trigger_animation" /\ call'.notified))
           /\ ~(Len(queue') > Len(queue) /\ queue'[Len(queue')].type = "RenderTick") ]_vars

\* C9: after trigger_animation(v) the flag equals v, and notify_one was called
\* in the call if and only if the flag was false before it and v is true.
C9_TriggerAnimation ==
    call.op = "trigger_animation"
        => /\ is_animating = call.arg
           /\ call.notified <=> (~call.pre /\ call.arg)

\* C9 witness: a call that found the flag false, stored true and woke the
\* parked worker.
C9_Witness ==
    /\ call.op = "trigger_animation" /\ ~call.pre /\ call.arg /\ call.notified
    /\ render_pc = "woken" /\ is_animating

\* C10 as claimed: no RenderTick is sent while the flag is false.
C10_OnlyWhileActive == late_sends = 0

\* C10 amended: at most one RenderTick is sent after the main thread has
\* stored false in the flag and before it next stores true.
C10_AtMostOneLate == late_sends <= 1

\* C10 witness: the worker read the flag as true, the main thread then stored
\* false, and the worker sent its RenderTick.
C10_Witness == late_sends = 1 /\ ~is_animating


\* what the display shows: the current values of all blocks of all tokens, in
\* order; and the format specification the tokens cover
RECURSIVE ConcatCurrent(_)
ConcatCurrent(blocks) ==
    IF blocks = <<>> THEN <<>>
    ELSE Head(blocks).curr_token \o ConcatCurrent(Tail(blocks))
RECURSIVE Displayed(_)
Displayed(tokens) ==
    IF tokens = <<>> THEN <<>>
    ELSE ConcatCurrent(Head(tokens).blocks) \o Displayed(Tail(tokens))
RECURSIVE FormatSpec(_)
FormatSpec(tokens) ==
    IF tokens = <<>> THEN <<>>
    ELSE Head(tokens).format_string \o FormatSpec(Tail(tokens))

\* the block partition of a token list: the fragments and, per block,
\* is_constant, size and threshold
Partition(tokens) ==
    [t \in 1..Len(tokens) |->
        [format_string |-> tokens[t].format_string,
         blocks |-> [b \in 1..Len(tokens[t].blocks) |->
                        [is_constant       |-> tokens[t].blocks[b].is_constant,
                         size              |-> tokens[t].blocks[b].size,
                         transition_timing |-> tokens[t].blocks[b].transition_timing]]]]

\* C4: no phantom animation -- every block whose current value equals its
\* target has progress 0.
C4_NoPhantomAnimation ==
    \A p \in BlockIds(animated_time) :
        BlockAt(animated_time, p).curr_token = BlockAt(animated_time, p).new_token
            => BlockAt(animated_time, p).transition_progress = 0

\* C5: commit timing -- a tick_render call on a non-constant block whose
\* target differs from its current value leaves the current value alone and
\* adds the elapsed time while the progress is at most the threshold, and
\* commits (current = target, progress = 0) when the progress exceeds it.
C5_CommitTiming ==
    call.op = "tick_render" =>
        \A p \in BlockIds(call.pre) :
            LET before == BlockAt(call.pre, p)
                after  == BlockAt(animated_time, p)
            IN  (~before.is_constant /\ before.new_token # before.curr_token) =>
                    IF before.transition_progress <= before.transition_timing
                    THEN /\ after.curr_token = before.curr_token
                         /\ after.transition_progress = before.transition_progress + call.arg
                    ELSE /\ after.curr_token = before.new_token
                         /\ after.transition_progress = 0

\* C5 witness: a tick_render call that found a pending block with progress
\* past its threshold and committed it.
C5_Witness ==
    /\ call.op = "tick_render"
    /\ \E p \in BlockIds(call.pre) :
          /\ ~BlockAt(call.pre, p).is_constant
          /\ BlockAt(call.pre, p).new_token # BlockAt(call.pre, p).curr_token
          /\ BlockAt(call.pre, p).transition_progress > BlockAt(call.pre, p).transition_timing
          /\ BlockAt(animated_time, p).curr_token = BlockAt(call.pre, p).new_token
          /\ BlockAt(animated_time, p).transition_progress = 0

\* C6: timing propagation -- after App::new(T) every block of every token has
\* threshold T.
C6_TimingPropagation ==
    call.op = "App::new" =>
        \A p \in BlockIds(animated_time) :
            BlockAt(animated_time, p).transition_timing = call.arg

\* C7: round trip -- once every block shows its target, the block values of
\* all tokens concatenated in order are the rendering of the whole format
\* specification at the instant of the sample.
C7_RoundTrip ==
    Settled =>
        Displayed(animated_time.format_tokens)
            = FormatWhole(Clock(call.at), FormatSpec(animated_time.format_tokens))

\* C8: tokenizer determinism -- the partition a set_format call leaves is the
\* partition set_format yields for the same format specification at any
\* instant, from an empty token list, from the list held before the call and
\* from the list held after it.
C8_TokenizerDeterminism ==
    call.op = "set_format" =>
        \A n \in 0..MaxNow :
            \A prev \in {<<>>, call.pre.format_tokens, animated_time.format_tokens} :
                Partition(set_format([format_tokens |-> prev,
                                      timing |-> animated_time.timing],
                                     call.arg, n).format_tokens)
                    = Partition(animated_time.format_tokens)

\* C8 witness: a set_format call made at Clock(1) on a token list tokenized
\* from another format specification.
C8_Witness ==
    /\ call.op = "set_format" /\ call.at = 1
    /\ call.pre.format_tokens # <<>>
    /\ FormatSpec(call.pre.format_tokens) # call.arg
    /\ Len(animated_time.format_tokens) > 1


\* time since the last LogicTick when the poll under way was entered
PollEntered == last_tick_elapsed - poll_waited

\* C11: logic-tick pacing -- the timeout of a poll is never longer than what
\* is left of the tick rate when the poll is entered, so a poll that returns
\* by timeout does not carry the time since the last LogicTick past the tick
\* rate, however much time passed between the elapsed-time check and the
\* computation of the timeout.
C11_LogicTickPacing ==
    logic_pc = "polling" => timeout <= Max(0, TickRate - PollEntered)


\* the target values of all blocks, token by token
Targets(self) ==
    [t \in 1..Len(self.format_tokens) |->
        [b \in 1..Len(self.format_tokens[t].blocks) |->
            self.format_tokens[t].blocks[b].new_token]]

\* C12: sampling is idempotent within one clock instant -- a tick_logic call
\* that follows a tick_logic call made at the same instant leaves every
\* block's target as the first call left it.
C12_SampleIdempotent ==
    (call.op = "tick_logic" /\ call.repeat) => Targets(animated_time) = Targets(call.pre)

\* C12 witness: tick_logic called a second time at an instant whose sample
\* differs from what the blocks show.
C12_Witness ==
    /\ call.op = "tick_logic" /\ call.repeat
    /\ AnyPending
    /\ Targets(animated_time) = Targets(call.pre)


\* the blocks of self that are not constant and whose target differs from
\* their current value
Differing(self) ==
    { p \in BlockIds(self) :
        ~BlockAt(self, p).is_constant
        /\ BlockAt(self, p).new_token # BlockAt(self, p).curr_token }

\* C13: tick_render returns true if and only if, after the call, at least
\* one non-constant block has a current value different from its target; a
\* call in which every differing block commits returns false.
C13_ReturnIsAnimating ==
    call.op = "tick_render" => (call.ret <=> Differing(animated_time) # {})

\* C13 witness: a tick_render call that found differing blocks, committed
\* every one of them and returned false.
C13_Witness ==
    /\ call.op = "tick_render"
    /\ Differing(call.pre) # {}
    /\ Differing(animated_time) = {}
    /\ ~call.ret


\* the token is classified as the two representative renderings prescribe
Classified(token) ==
    LET maxs == FormatItem(max_dt, token.format_string)
        mins == FormatItem(min_dt, token.format_string)
    IN  IF Len(mins) # Len(maxs)
        THEN /\ Len(token.blocks) = 1
             /\ ~token.blocks[1].is_constant
             /\ token.blocks[1].size = Max(Len(mins), Len(maxs))
        ELSE /\ Len(token.blocks) = Len(mins)
             /\ \A i \in 1..Len(token.blocks) :
                    /\ token.blocks[i].size = 1
                    /\ token.blocks[i].is_constant <=> (mins[i] = maxs[i])

\* C14: block classification at tokenize time -- after set_format, a token
\* whose renderings at the two representative instants differ in length has
\* exactly one block, non-constant, sized to the longer rendering; any other
\* token has one block of size 1 per character position, constant if and
\* only if the two renderings agree at that position.
C14_BlockClassification ==
    call.op = "set_format" =>
        \A t \in 1..Len(animated_time.format_tokens) :
            Classified(animated_time.format_tokens[t])

\* C14 witness: a set_format call that left a token collapsed into a single
\* block of size 2 and a token split into a varying and a constant block.
C14_Witness ==
    /\ call.op = "set_format"
    /\ \E t \in 1..Len(animated_time.format_tokens) :
          /\ Len(animated_time.format_tokens[t].blocks) = 1
          /\ animated_time.format_tokens[t].blocks[1].size = 2
    /\ \E t \in 1..Len(animated_time.format_tokens) :
          /\ Len(animated_time.format_tokens[t].blocks) = 2
          /\ ~animated_time.format_tokens[t].blocks[1].is_constant
          /\ animated_time.format_tokens[t].blocks[2].is_constant


\* C15: no initial transition -- right after set_format every block, constant
\* or not, has its current value equal to its target, both the value sampled
\* at the instant of the call, and progress 0; a tick_render call made then,
\* with any elapsed time, returns false and changes nothing.
C15_NoInitialTransition ==
    call.op = "set_format" =>
        /\ \A p \in BlockIds(animated_time) :
              /\ BlockAt(animated_time, p).curr_token = BlockAt(animated_time, p).new_token
              /\ BlockAt(animated_time, p).transition_progress = 0
        /\ Targets(animated_time) = Targets(tick_logic(animated_time, call.at))
        /\ \A d \in Elapsed :
              /\ ~tick_render(animated_time, d).ret
              /\ tick_render(animated_time, d).self = animated_time

\* C15 witness: set_format called while blocks of the previous format were
\* in transition, with progress accumulated.
C15_Witness ==
    /\ call.op = "set_format"
    /\ \E p \in Differing(call.pre) : BlockAt(call.pre, p).transition_progress > 0
    /\ FormatSpec(call.pre.format_tokens) # call.arg
    /\ Settled


\* C16: zero threshold -- in an application constructed with transition
\* timing 0, a block whose difference one tick_render call is the first to
\* observe is committed by the tick_render call that follows it, whatever
\* the elapsed times passed.
C16_ZeroThreshold ==
    (call.op = "tick_render" /\ call.configured = 0) =>
        \A p \in call.prev_first :
            BlockAt(animated_time, p).curr_token = BlockAt(animated_time, p).new_token


\* the constant blocks of self
ConstantBlocks(self) == { p \in BlockIds(self) : BlockAt(self, p).is_constant }

\* the characters block p takes from the rendering of its token at instant n
\* (every constant block has size 1 and stands at its character position)
SampleAt(self, p, n) ==
    LET time_string == FormatItem(Clock(n), self.format_tokens[p[1]].format_string)
    IN  IF p[2] <= Len(time_string) THEN << time_string[p[2]] >> ELSE <<>>

\* C17: constant blocks never transition -- a tick_render call leaves the
\* current value and the progress of every constant block as they were, also
\* when the block's target differs from its current value, and it returns
\* true only if a non-constant block differs; a tick_logic call still writes
\* the sampled characters into the target of every constant block.
C17_ConstantBlocksSkipped ==
    /\ call.op = "tick_render" =>
          /\ \A p \in ConstantBlocks(call.pre) :
                /\ BlockAt(animated_time, p).curr_token = BlockAt(call.pre, p).curr_token
                /\ BlockAt(animated_time, p).transition_progress
                      = BlockAt(call.pre, p).transition_progress
          /\ call.ret => Differing(call.pre) # {}
    /\ call.op = "tick_logic" =>
          \A p \in ConstantBlocks(animated_time) :
              BlockAt(animated_time, p).new_token = SampleAt(animated_time, p, call.at)

\* C17 witness: a tick_render call with elapsed time on a display whose only
\* differing block is a constant one returned false and left the block
\* differing.
C17_Witness ==
    /\ call.op = "tick_render" /\ call.arg > 0 /\ ~call.ret
    /\ \E p \in ConstantBlocks(call.pre) :
          /\ BlockAt(call.pre, p).new_token # BlockAt(call.pre, p).curr_token
          /\ BlockAt(animated_time, p).new_token # BlockAt(animated_time, p).curr_token
          /\ BlockAt(animated_time, p).transition_progress = 0


\* C18: flag soundness -- whenever the stored activity flag is false, in
\* particular once the main loop has handled an event and made its
\* trigger_animation call, every non-constant block has its current value
\* equal to its target, in whatever order LogicTicks and RenderTicks are
\* received.
C18_FlagSoundness == ~is_animating => Differing(animated_time) = {}

\* C18 witness: a RenderTick was handled, tick_render committed the last
\* differing blocks of a changed display and trigger_animation stored false
\* over true.
C18_Witness ==
    /\ call.op = "trigger_animation" /\ call.pre /\ ~call.arg /\ ~is_animating
    /\ call.committed
    /\ Settled


\* self with the target of every block blanked: the tokens and blocks in
\* their order, with every field but the target
WithoutTargets(self) ==
    [self EXCEPT !.format_tokens =
        [t \in 1..Len(self.format_tokens) |->
            [self.format_tokens[t] EXCEPT !.blocks =
                [b \in 1..Len(self.format_tokens[t].blocks) |->
                    [self.format_tokens[t].blocks[b] EXCEPT !.new_token = <<>>]]]]]

\* C19: sampling frame -- tick_logic changes only the targets of blocks: the
\* current value, progress, threshold, size and is_constant of every block,
\* and the number and order of tokens and blocks, are as before the call.
C19_SamplingFrame ==
    call.op = "tick_logic" => WithoutTargets(animated_time) = WithoutTargets(call.pre)

\* C19 witness: a tick_logic call that changed targets while a block was in
\* transition with progress accumulated.
C19_Witness ==
    /\ call.op = "tick_logic"
    /\ Targets(animated_time) # Targets(call.pre)
    /\ \E p \in BlockIds(call.pre) : BlockAt(call.pre, p).transition_progress > 0
    /\ WithoutTargets(animated_time) = WithoutTargets(call.pre)

=============================================================================
